---- MODULE Spec2Model ----
(***************************************************************************)
(* Podcast-illustrator: the timeline builder of VideoComposer              *)
(* (src/video_composer_1.py), the transcript merger of AudioProcessor      *)
(* (src/audio_processor_1.py), and the pipeline stages process_audio,      *)
(* analyze_content (src/content_analyzer_1.py), process_visual_content     *)
(* (src/visual_content_generator_1.py) and compose_video with the video    *)
(* endpoints (src/video_1.py) that read what the stages leave.             *)
(*                                                                         *)
(* Specifications: SpecTimeline (one call of create_timeline), SpecMerge   *)
(* (one call of merge_transcripts), SpecAudio (runs of process_audio),     *)
(* SpecCompose (runs of compose_video and endpoint calls), SpecAnalysis    *)
(* (runs of analyze_content), SpecJob (runs of the four stages in any      *)
(* order).                                                                 *)
(*                                                                         *)
(* Times are whole seconds.  Relevance scores are tenths (0.5 is 5).       *)
(* Python dicts are functions; a missing key is a missing domain element.  *)
(***************************************************************************)
EXTENDS Integers, Sequences, FiniteSets, TLC

VARIABLES
    visual_content,     \* create_timeline's visual_content argument (the manifest)
    transcript,         \* create_timeline's transcript argument
    normalized_content, \* create_timeline's all_content as its two loops built it
    timeline,           \* the list create_timeline returned
    transcripts,        \* merge_transcripts' transcripts argument
    segment_duration,   \* merge_transcripts' segment_duration argument
    merged_transcript,  \* the dict merge_transcripts returned
    pc,                 \* "idle" before the call, "done" once it returned; in a
                        \* pipeline stage, the step the stage is about to take
    audio_file,         \* whether the job directory holds an uploaded audio file
    transcript_file,    \* full_transcript.json: <<>> if absent, else <<dict>>
    manifest_file,      \* content/visual_content_manifest.json, likewise
    analysis_file,      \* analysis/content_analysis.json, likewise
    status_file,        \* status.json, likewise (the last status written)
    segment_files,      \* process_audio's segment_files: the chunk indices
    temp_files,         \* temp/: clip file name -> duration of the clip
    concat_file,        \* temp/concat_list.txt: <<>> or <<content>>
    video_only_file,    \* temp/video_only.mp4: <<>> or <<clip durations>>
    output_file,        \* output/illustrated_podcast.mp4: <<>> or <<video>>
    composition_info_file, \* output/composition_info.json: <<>> or <<dict>>
    video_segments,     \* prepare_video_segments' video_segments
    loop_i,             \* the index i of the loop the stage is in
    calls,              \* the calls the running stage has made so far
    error,              \* the exception the stage raised to its caller
    runs,               \* how many stage runs have been started
    response            \* what the last endpoint call answered

\* the files of a job directory and the locals of the pipeline stages
jobVars == <<audio_file, transcript_file, manifest_file, analysis_file,
             status_file, segment_files, temp_files, concat_file,
             video_only_file, output_file, composition_info_file,
             video_segments, loop_i, calls, error, runs, response>>

vars == <<visual_content, transcript, normalized_content, timeline,
          transcripts, segment_duration, merged_transcript, pc, jobVars>>

(***************************************************************************)
(* Bounds of the model.                                                    *)
(***************************************************************************)
MaxImages == 2
MaxVideos == 1
MaxStamp == 5
MaxDuration == 6
MaxTextTranscripts == 3
MaxIndex == 1
MaxLocal == 3
MaxSegments == 2
MaxSegmentDuration == 2
MaxRuns == 2
MaxQueries == 1
MaxAnalysisSegments == 3

(***************************************************************************)
(* Program constants.                                                      *)
(***************************************************************************)
default_image_duration == 5
default_video_duration == 3
default_image_relevance == 5
default_video_relevance == 8
background_relevance == 1
chunk_duration == 45

NoPath == "None"
EmptyDict == [k \in {} |-> 0]

\* a file that does not exist, and one that holds content
NoFile == <<>>
File(content) == <<content>>
Exists(file) == file # NoFile
Content(file) == file[1]

NoError == "None"
NoResponse == [endpoint |-> "none", code |-> 0, body |-> NoFile,
               called_builder |-> FALSE]

\* the job variables where no job directory is involved
NoJob ==
    /\ audio_file = FALSE
    /\ transcript_file = NoFile
    /\ manifest_file = NoFile
    /\ analysis_file = NoFile
    /\ status_file = NoFile
    /\ segment_files = <<>>
    /\ temp_files = EmptyDict
    /\ concat_file = NoFile
    /\ video_only_file = NoFile
    /\ output_file = NoFile
    /\ composition_info_file = NoFile
    /\ video_segments = <<>>
    /\ loop_i = 0
    /\ calls = <<>>
    /\ error = NoError
    /\ runs = 0
    /\ response = NoResponse

\* dict.get(key, default)
Get(d, key, default) == IF key \in DOMAIN d THEN d[key] ELSE default

Max(a, b) == IF a >= b THEN a ELSE b
Min(a, b) == IF a <= b THEN a ELSE b

(***************************************************************************)
(* create_timeline: normalisation of the manifest records.                 *)
(***************************************************************************)
ImagePlacement(image) ==
    [type |-> "image",
     path |-> image["path"],
     timestamp |-> Get(image, "timestamp", 0),
     relevance_score |-> Get(image, "relevance_score", default_image_relevance),
     description |-> Get(image, "description", ""),
     duration |-> default_image_duration]

\* a video normalised with the defaults of an image
VideoPlacementImageDefaults(video) ==
    [type |-> "video",
     path |-> video["path"],
     timestamp |-> Get(video, "timestamp", 0),
     relevance_score |-> Get(video, "relevance_score", default_image_relevance),
     description |-> Get(video, "description", ""),
     duration |-> default_image_duration]

VideoPlacement(video) ==
    [type |-> "video",
     path |-> video["path"],
     timestamp |-> Get(video, "timestamp", 0),
     relevance_score |-> Get(video, "relevance_score", default_video_relevance),
     description |-> Get(video, "description", ""),
     duration |-> default_video_duration]

\* all_content before the sort: every image, then every video
AllContent(vc) ==
    LET images == Get(vc, "images", <<>>)
        videos == Get(vc, "videos", <<>>)
    IN  [i \in 1..Len(images) |-> ImagePlacement(images[i])]
        \o [i \in 1..Len(videos) |-> VideoPlacement(videos[i])]

\* one step of a sort that is not stable: x goes in front of its equals
RECURSIVE InsertBeforeEquals(_, _)
InsertBeforeEquals(sorted, x) ==
    IF sorted = <<>> THEN <<x>>
    ELSE IF Head(sorted).timestamp < x.timestamp
         THEN <<Head(sorted)>> \o InsertBeforeEquals(Tail(sorted), x)
         ELSE <<x>> \o sorted

\* one step of list.sort: x goes after every element whose key is <= its own
RECURSIVE InsertByTimestamp(_, _)
InsertByTimestamp(sorted, x) ==
    IF sorted = <<>> THEN <<x>>
    ELSE IF Head(sorted).timestamp <= x.timestamp
         THEN <<Head(sorted)>> \o InsertByTimestamp(Tail(sorted), x)
         ELSE <<x>> \o sorted

\* all_content.sort(key=lambda x: x['timestamp']): ascending and stable
RECURSIVE SortByTimestamp(_)
SortByTimestamp(content) ==
    IF content = <<>> THEN <<>>
    ELSE InsertByTimestamp(SortByTimestamp(SubSeq(content, 1, Len(content) - 1)),
                           content[Len(content)])

\* a loop that would also keep a placement squeezed to zero width
ValidSegmentOrEmpty(start_time, end_time) == end_time >= start_time

\* the condition under which the loop keeps a placement
ValidSegment(start_time, end_time) == end_time > start_time

\* a placement pass that starts every placement at its own timestamp
RECURSIVE PlaceContentAtTimestamp(_, _, _, _, _)
PlaceContentAtTimestamp(all_content, i, total_duration, current_time, tl) ==
    IF i > Len(all_content) THEN tl
    ELSE LET content == all_content[i]
             start_time == content.timestamp
             end_time == Min(start_time + content.duration, total_duration)
         IN  IF ValidSegment(start_time, end_time)
             THEN PlaceContentAtTimestamp(all_content, i + 1, total_duration, end_time,
                      Append(tl, [type |-> content.type,
                                  path |-> content.path,
                                  start_time |-> start_time,
                                  end_time |-> end_time,
                                  duration |-> end_time - start_time,
                                  description |-> content.description,
                                  relevance_score |-> content.relevance_score]))
             ELSE PlaceContentAtTimestamp(all_content, i + 1, total_duration,
                                          current_time, tl)

\* the loop "for content in all_content" from position i on
RECURSIVE PlaceContent(_, _, _, _, _)
PlaceContent(all_content, i, total_duration, current_time, tl) ==
    IF i > Len(all_content) THEN tl
    ELSE LET content == all_content[i]
             start_time == Max(content.timestamp, current_time)
             end_time == Min(start_time + content.duration, total_duration)
         IN  IF ValidSegment(start_time, end_time)
             THEN PlaceContent(all_content, i + 1, total_duration, end_time,
                      Append(tl, [type |-> content.type,
                                  path |-> content.path,
                                  start_time |-> start_time,
                                  end_time |-> end_time,
                                  duration |-> end_time - start_time,
                                  description |-> content.description,
                                  relevance_score |-> content.relevance_score]))
             ELSE PlaceContent(all_content, i + 1, total_duration, current_time, tl)

\* a copy of the last segment that keeps the copied segment's duration field
ExtendLastStaleDuration(filled, from, to) ==
    [filled[Len(filled)] EXCEPT !.start_time = from, !.end_time = to]

\* last_segment = filled_timeline[-1].copy() with the three time fields reassigned
ExtendLast(filled, from, to) ==
    [filled[Len(filled)] EXCEPT !.start_time = from,
                                !.end_time = to,
                                !.duration = to - from]

BackgroundSegment(from, to) ==
    [type |-> "background",
     path |-> NoPath,
     start_time |-> from,
     end_time |-> to,
     duration |-> to - from,
     description |-> "Background",
     relevance_score |-> background_relevance]

\* a gap loop that puts a background segment into every gap
RECURSIVE FillLoopBackgroundOnly(_, _, _, _)
FillLoopBackgroundOnly(tl, i, current_time, filled) ==
    IF i > Len(tl) THEN <<filled, current_time>>
    ELSE LET segment == tl[i]
             gapped ==
                 IF segment.start_time > current_time
                 THEN Append(filled,
                          BackgroundSegment(current_time, segment.start_time))
                 ELSE filled
         IN  FillLoopBackgroundOnly(tl, i + 1, segment.end_time,
                                    Append(gapped, segment))

\* a gap loop that stretches the last segment itself over the gap and
\* appends that same segment again
RECURSIVE FillLoopInPlace(_, _, _, _)
FillLoopInPlace(tl, i, current_time, filled) ==
    IF i > Len(tl) THEN <<filled, current_time>>
    ELSE LET segment == tl[i]
             stretched == ExtendLast(filled, current_time, segment.start_time)
             gapped ==
                 IF segment.start_time > current_time
                 THEN IF filled # <<>>
                      THEN Append([filled EXCEPT ![Len(filled)] = stretched],
                                  stretched)
                      ELSE Append(filled,
                               BackgroundSegment(current_time, segment.start_time))
                 ELSE filled
         IN  FillLoopInPlace(tl, i + 1, segment.end_time, Append(gapped, segment))

\* the loop "for segment in timeline" of fill_timeline_gaps from position i on
RECURSIVE FillLoop(_, _, _, _)
FillLoop(tl, i, current_time, filled) ==
    IF i > Len(tl) THEN <<filled, current_time>>
    ELSE LET segment == tl[i]
             gapped ==
                 IF segment.start_time > current_time
                 THEN IF filled # <<>>
                      THEN Append(filled,
                               ExtendLast(filled, current_time, segment.start_time))
                      ELSE Append(filled,
                               BackgroundSegment(current_time, segment.start_time))
                 ELSE filled
         IN  FillLoop(tl, i + 1, segment.end_time, Append(gapped, segment))

\* a builder that returns the placement pass's list as it is
NoGapFilling(tl, total_duration) == tl

\* a gap filler that stops after the loop and appends nothing at the end
NoTrailingFiller(tl, total_duration) ==
    IF tl = <<>> THEN tl ELSE FillLoop(tl, 1, 0, <<>>)[1]

\* a gap filler that covers a duration without any kept entry by a
\* background segment
BackgroundWhenEmpty(tl, total_duration) ==
    IF tl = <<>>
    THEN IF total_duration > 0
         THEN <<BackgroundSegment(0, total_duration)>>
         ELSE tl
    ELSE LET res == FillLoop(tl, 1, 0, <<>>)
         IN  IF res[2] < total_duration
             THEN Append(res[1], ExtendLast(res[1], res[2], total_duration))
             ELSE res[1]

fill_timeline_gaps(tl, total_duration) ==
    IF tl = <<>> THEN tl
    ELSE LET res == FillLoop(tl, 1, 0, <<>>)
             filled == res[1]
             current_time == res[2]
         IN  IF current_time < total_duration /\ filled # <<>>
             THEN Append(filled, ExtendLast(filled, current_time, total_duration))
             ELSE filled

create_timeline(vc, tr) ==
    LET total_duration == Get(tr, "total_duration", 0)
        all_content == SortByTimestamp(AllContent(vc))
    IN  fill_timeline_gaps(PlaceContent(all_content, 1, total_duration, 0, <<>>),
                           total_duration)

(***************************************************************************)
(* Inputs of create_timeline.                                              *)
(***************************************************************************)
ImagePathNames == <<"a.png", "b.png", "c.png", "d.png">>
VideoPathNames == <<"v.mp4", "w.mp4", "u.mp4">>
Stamps == 0..MaxStamp

SeqsUpTo(S, n) == UNION {[1..k -> S] : k \in 0..n}

\* the optional keys of a manifest record: none (<<>>), a timestamp with the
\* rest (<<t>>), or a third choice of keys (<<0, 0>>)
Shapes == {<<>>, <<0, 0>>} \cup {<<t>> : t \in Stamps}

\* an image record as the content generator writes it, one with a path only,
\* or one with a path and a description
ImageRecord(i, shape) ==
    CASE Len(shape) = 0 -> [path |-> ImagePathNames[i]]
      [] Len(shape) = 1 -> [path |-> ImagePathNames[i], timestamp |-> shape[1],
                            description |-> "d", relevance_score |-> 7]
      [] OTHER -> [path |-> ImagePathNames[i], description |-> "e"]

\* a video record as the content generator writes it (no relevance_score),
\* one with a path only, or one with a path and a relevance_score
VideoRecord(i, shape) ==
    CASE Len(shape) = 0 -> [path |-> VideoPathNames[i]]
      [] Len(shape) = 1 -> [path |-> VideoPathNames[i], timestamp |-> shape[1],
                            description |-> "v"]
      [] OTHER -> [path |-> VideoPathNames[i], relevance_score |-> 9]

ImageList(c) == [i \in 1..Len(c) |-> ImageRecord(i, c[i])]
VideoList(c) == [i \in 1..Len(c) |-> VideoRecord(i, c[i])]

\* the manifest; either list may be missing from it
Manifests(im, vd) ==
    {[images |-> im, videos |-> vd], [images |-> im], [videos |-> vd]}

TimelineTranscripts ==
    {EmptyDict} \cup {[total_duration |-> d] : d \in 0..MaxDuration}

(***************************************************************************)
(* The timeline builder as a state machine: the caller holds a manifest    *)
(* and a transcript, and calls create_timeline once.                       *)
(***************************************************************************)
InitTimeline ==
    /\ \E ci \in SeqsUpTo(Shapes, MaxImages), cv \in SeqsUpTo(Shapes, MaxVideos) :
           visual_content \in Manifests(ImageList(ci), VideoList(cv))
    /\ transcript \in TimelineTranscripts
    /\ normalized_content = <<>>
    /\ NoJob
    /\ timeline = <<>>
    /\ transcripts = <<>>
    /\ segment_duration = 0
    /\ merged_transcript = EmptyDict
    /\ pc = "idle"

CreateTimeline ==
    /\ pc = "idle"
    /\ normalized_content' = AllContent(visual_content)
    /\ timeline' = create_timeline(visual_content, transcript)
    /\ pc' = "done"
    /\ UNCHANGED <<visual_content, transcript, transcripts, segment_duration,
                   merged_transcript, jobVars>>

NextTimeline == CreateTimeline

SpecTimeline == InitTimeline /\ [][NextTimeline]_vars

(***************************************************************************)
(* Properties of create_timeline (checked under SpecTimeline).             *)
(***************************************************************************)
Returned == pc = "done"
TotalDuration == Get(transcript, "total_duration", 0)
SortedContent == SortByTimestamp(AllContent(visual_content))

Contiguous(tl) == \A i \in 1..Len(tl) - 1 : tl[i].end_time = tl[i + 1].start_time
SortedByStart(tl) == \A i \in 1..Len(tl) - 1 : tl[i].start_time <= tl[i + 1].start_time
Covers(tl, total) ==
    /\ tl # <<>>
    /\ tl[1].start_time = 0
    /\ tl[Len(tl)].end_time = total
    /\ Contiguous(tl)
    /\ \A i \in 1..Len(tl) : tl[i].start_time < tl[i].end_time

\* C1: with at least one visual record and total_duration > 0, the returned
\* timeline is non-empty, starts at 0, ends at total_duration, and its
\* intervals partition [0, total_duration] with no gap and no overlap.
C1_TimelineCoverage ==
    (Returned /\ AllContent(visual_content) # <<>> /\ TotalDuration > 0)
        => Covers(timeline, TotalDuration)

\* C2: every returned timeline is sorted by start_time and contiguous:
\* each entry ends where the next one starts.
C2_TimelineOrdering ==
    Returned => (SortedByStart(timeline) /\ Contiguous(timeline))

C2_Witness ==
    /\ Returned
    /\ Len(timeline) >= 4
    /\ timeline[1].type = "background"
    /\ \E i \in 2..Len(timeline) : timeline[i].path = timeline[i - 1].path

\* the placement at position k of the sorted list sc is the only one with its path
UniquePath(sc, k) == \A j \in 1..Len(sc) : j # k => sc[j].path # sc[k].path

Appears(sc, k) == \E i \in 1..Len(timeline) : timeline[i].path = sc[k].path

\* the end of the last entry kept from the placements sorted before position k
CursorBefore(sc, k) ==
    LET kept == PlaceContent(SubSeq(sc, 1, k - 1), 1, TotalDuration, 0, <<>>)
    IN  IF kept = <<>> THEN 0 ELSE kept[Len(kept)].end_time

\* the own span of the placement at k lies inside that of an earlier-sorted one
ConsumedByEarlier(sc, k) ==
    \E j \in 1..k - 1 :
        /\ sc[j].timestamp <= sc[k].timestamp
        /\ sc[j].timestamp + sc[j].duration >= sc[k].timestamp + sc[k].duration

\* C3 as stated: a placement whose timestamp lies after total_duration, or
\* whose own span [timestamp, timestamp + duration) is fully consumed by an
\* earlier-sorted placement, does not appear in the returned timeline.
C3_DropPolicyAsStated ==
    Returned =>
        LET sc == SortedContent
        IN  \A k \in 1..Len(sc) :
                (UniquePath(sc, k)
                 /\ (sc[k].timestamp >= TotalDuration \/ ConsumedByEarlier(sc, k)))
                    => ~Appears(sc, k)

\* C3 as amended: a placement is absent from the returned timeline exactly
\* when its timestamp is at or after total_duration or the placements sorted
\* before it have already filled the timeline up to total_duration; a
\* placement whose own span is consumed by an earlier one while time remains
\* is shifted to start at the end of the last kept entry.
C3_DropPolicy ==
    Returned =>
        LET sc == SortedContent
        IN  \A k \in 1..Len(sc) :
                UniquePath(sc, k) =>
                    LET cursor == CursorBefore(sc, k)
                    IN  IF sc[k].timestamp >= TotalDuration \/ cursor >= TotalDuration
                        THEN ~Appears(sc, k)
                        ELSE \E i \in 1..Len(timeline) :
                                /\ timeline[i].path = sc[k].path
                                /\ timeline[i].type = sc[k].type
                                /\ timeline[i].start_time = Max(sc[k].timestamp, cursor)

C3_Witness ==
    /\ Returned
    /\ LET sc == SortedContent
       IN  /\ \E k \in 1..Len(sc) :
                 /\ UniquePath(sc, k)
                 /\ sc[k].timestamp < TotalDuration
                 /\ CursorBefore(sc, k) >= TotalDuration
                 /\ ~Appears(sc, k)
           /\ \E k \in 1..Len(sc) :
                 /\ UniquePath(sc, k)
                 /\ ConsumedByEarlier(sc, k)
                 /\ Appears(sc, k)

\* C4: with no visual record at all and total_duration > 0, the returned
\* timeline is one background entry without a path spanning [0, total_duration].
C4_EmptyContentBackground ==
    (Returned /\ AllContent(visual_content) = <<>> /\ TotalDuration > 0)
        => timeline = <<BackgroundSegment(0, TotalDuration)>>

\* C5: when total_duration is 0, or the transcript has no total_duration,
\* the returned timeline is empty whatever the visual records are.
C5_ZeroDurationEmpty ==
    (Returned /\ TotalDuration = 0) => timeline = <<>>

C5_Witness ==
    /\ Returned
    /\ "total_duration" \notin DOMAIN transcript
    /\ Len(AllContent(visual_content)) >= 2
    /\ \E k \in 1..Len(AllContent(visual_content)) :
          AllContent(visual_content)[k].timestamp = 0
    /\ timeline = <<>>

\* C6: every entry of the returned timeline, placement or filler, has
\* end_time > start_time and a duration field equal to end_time - start_time.
C6_PositiveDurations ==
    Returned =>
        \A i \in 1..Len(timeline) :
            /\ timeline[i].end_time > timeline[i].start_time
            /\ timeline[i].duration = timeline[i].end_time - timeline[i].start_time

C6_Witness ==
    /\ Returned
    /\ \E i, j, k \in 1..Len(timeline) :
          /\ i < j /\ j < k
          /\ timeline[i].type = "background"
          /\ timeline[j].path = timeline[k].path
          /\ timeline[j].duration # timeline[k].duration
          /\ timeline[k].end_time = TotalDuration

\* what the normaliser has to make of one manifest record
Projected(placement, record, type, relevance, duration) ==
    /\ placement.type = type
    /\ placement.path = record.path
    /\ placement.timestamp =
           (IF "timestamp" \in DOMAIN record THEN record.timestamp ELSE 0)
    /\ placement.relevance_score =
           (IF "relevance_score" \in DOMAIN record THEN record.relevance_score
            ELSE relevance)
    /\ placement.description =
           (IF "description" \in DOMAIN record THEN record.description ELSE "")
    /\ placement.duration = duration

\* C13: the normaliser is a projection, not a filter: all_content holds one
\* placement per image record followed by one per video record, in manifest
\* order; a missing timestamp becomes 0, a missing relevance 0.5 for an
\* image and 0.8 for a video, the intrinsic duration is 5 for an image and 3
\* for a video, and type, path and description are carried over.
C13_NormalizerProjection ==
    Returned =>
        LET images == IF "images" \in DOMAIN visual_content
                      THEN visual_content.images ELSE <<>>
            videos == IF "videos" \in DOMAIN visual_content
                      THEN visual_content.videos ELSE <<>>
        IN  /\ Len(normalized_content) = Len(images) + Len(videos)
            /\ \A i \in 1..Len(images) :
                   Projected(normalized_content[i], images[i], "image", 5, 5)
            /\ \A j \in 1..Len(videos) :
                   Projected(normalized_content[Len(images) + j], videos[j], "video", 8, 3)

\* a manifest with a bare image, a complete image record and a video that
\* carries its own relevance
C13_Witness ==
    /\ Returned
    /\ "images" \in DOMAIN visual_content
    /\ "videos" \in DOMAIN visual_content
    /\ \E i \in 1..Len(visual_content.images) :
           DOMAIN visual_content.images[i] = {"path"}
    /\ \E j \in 1..Len(visual_content.videos) :
           "relevance_score" \in DOMAIN visual_content.videos[j]
    /\ \E i \in 1..Len(visual_content.images) :
           /\ "relevance_score" \in DOMAIN visual_content.images[i]
           /\ visual_content.images[i].timestamp > 0

(***************************************************************************)
(* merge_transcripts.                                                      *)
(***************************************************************************)
\* an offset taken from current_offset, which the loop never advances
BaseTimeCurrentOffset(segment_index, D) == 0

\* base_time = segment_index * segment_duration
BaseTime(segment_index, D) == segment_index * D

\* a merged segment whose end is left chunk-local
MergedSegmentLocalEnd(base_time, segment) ==
    [start |-> base_time + segment.start,
     end |-> segment.end,
     text |-> segment.text]

MergedSegment(base_time, segment) ==
    [start |-> base_time + segment.start,
     end |-> base_time + segment.end,
     text |-> segment.text]

\* full_text after one transcript's text is added
AddToFullText(full_text, text) ==
    IF full_text # "" THEN (full_text \o " ") \o text ELSE full_text \o text

\* a total that follows the transcript merged last
LastTotalDuration(total_duration, base_time, duration) == base_time + duration

\* total_duration after one transcript
UpdateTotalDuration(total_duration, base_time, duration) ==
    Max(total_duration, base_time + duration)

\* the loop "for transcript in transcripts" from position i on
RECURSIVE MergeLoop(_, _, _, _)
MergeLoop(ts, i, D, merged) ==
    IF i > Len(ts) THEN merged
    ELSE LET t == ts[i]
             base_time == BaseTime(t.segment_index, D)
         IN  MergeLoop(ts, i + 1, D,
                 [merged EXCEPT
                    !.full_text = AddToFullText(@, t.text),
                    !.segments = @ \o [k \in 1..Len(t.segments) |->
                                          MergedSegment(base_time, t.segments[k])],
                    !.total_duration =
                        UpdateTotalDuration(@, base_time, t.duration)])

\* a merged transcript that takes its language from the last transcript
merge_transcripts_last_language(ts, D) ==
    MergeLoop(ts, 1, D,
        [total_duration |-> 0,
         language |-> IF ts # <<>> THEN ts[Len(ts)].language ELSE "en",
         full_text |-> "",
         segments |-> <<>>])

merge_transcripts(ts, D) ==
    MergeLoop(ts, 1, D,
        [total_duration |-> 0,
         language |-> IF ts # <<>> THEN ts[1].language ELSE "en",
         full_text |-> "",
         segments |-> <<>>])

(***************************************************************************)
(* Inputs of merge_transcripts.  Three families of transcript lists: one   *)
(* varies the timestamped segments, one the durations, one the texts and   *)
(* languages.                                                              *)
(***************************************************************************)
SegmentWords == <<"x", "y", "z", "w">>
Texts == {"", "a", "b"}
Languages == {"en", "fr"}

\* the (start, end) pairs of one chunk's segments: consecutive, none empty
LocalTimes ==
    {l \in SeqsUpTo((0..MaxLocal) \X (0..MaxLocal), MaxSegments) :
         /\ \A k \in 1..Len(l) : l[k][1] < l[k][2]
         /\ \A k \in 1..Len(l) - 1 : l[k][2] <= l[k + 1][1]}

\* what the transcription service returns for one chunk
LocalSegmentLists ==
    {[k \in 1..Len(l) |-> [start |-> l[k][1], end |-> l[k][2],
                           text |-> SegmentWords[k]]] : l \in LocalTimes}

\* the chunk indices of a transcript list: each chunk at most once, any order
IndexLists ==
    {s \in SeqsUpTo(0..MaxIndex, MaxIndex + 1) :
         \A i, j \in 1..Len(s) : i # j => s[i] # s[j]}

\* transcripts that differ in their timestamped segments
SegmentTranscriptList(s, c) ==
    [i \in 1..Len(s) |->
        [segment_index |-> s[i], text |-> "hi", language |-> "en",
         duration |-> MaxLocal, segments |-> c[i]]]

\* transcripts that differ in their duration
DurationTranscriptList(s, c) ==
    [i \in 1..Len(s) |->
        [segment_index |-> s[i], text |-> "hi", language |-> "en",
         duration |-> c[i],
         segments |-> <<[start |-> 0, end |-> 1, text |-> "x"]>>]]

\* transcripts that differ in text and language, one per chunk, none failed
TextTranscriptList(tx, lg) ==
    [i \in 1..Len(tx) |->
        [segment_index |-> i - 1, text |-> tx[i], language |-> lg[i],
         duration |-> 1, segments |-> <<>>]]

(***************************************************************************)
(* The merger as a state machine: the caller holds the transcripts of the  *)
(* chunks and the configured chunk duration, and calls merge_transcripts.  *)
(***************************************************************************)
InitMerge ==
    /\ \/ \E s \in IndexLists : \E c \in [1..Len(s) -> LocalSegmentLists] :
              transcripts = SegmentTranscriptList(s, c)
       \/ \E s \in IndexLists : \E c \in [1..Len(s) -> 0..MaxLocal] :
              transcripts = DurationTranscriptList(s, c)
       \/ \E k \in 0..MaxTextTranscripts :
              \E tx \in [1..k -> Texts], lg \in [1..k -> Languages] :
                  transcripts = TextTranscriptList(tx, lg)
    /\ segment_duration \in 1..MaxSegmentDuration
    /\ merged_transcript = EmptyDict
    /\ visual_content = EmptyDict
    /\ transcript = EmptyDict
    /\ normalized_content = <<>>
    /\ NoJob
    /\ timeline = <<>>
    /\ pc = "idle"

MergeTranscripts ==
    /\ pc = "idle"
    /\ merged_transcript' = merge_transcripts(transcripts, segment_duration)
    /\ pc' = "done"
    /\ UNCHANGED <<visual_content, transcript, normalized_content, timeline,
                   transcripts, segment_duration, jobVars>>

NextMerge == MergeTranscripts

SpecMerge == InitMerge /\ [][NextMerge]_vars

(***************************************************************************)
(* Properties of merge_transcripts (checked under SpecMerge).              *)
(***************************************************************************)
RECURSIVE SegmentsBefore(_, _)
\* how many chunk-local segments the transcripts before position i hold
SegmentsBefore(ts, i) ==
    IF i <= 1 THEN 0 ELSE SegmentsBefore(ts, i - 1) + Len(ts[i - 1].segments)

Offset(i) == transcripts[i].segment_index * segment_duration

\* C7: every chunk-local segment appears in the merged transcript exactly
\* once, in input order, with start and end raised by segment_index * D
\* (the chunk index carried by its transcript) and its text unchanged.
C7_MergerOffsets ==
    Returned =>
        /\ Len(merged_transcript.segments)
               = SegmentsBefore(transcripts, Len(transcripts) + 1)
        /\ \A i \in 1..Len(transcripts) :
               \A j \in 1..Len(transcripts[i].segments) :
                   LET out == merged_transcript.segments[SegmentsBefore(transcripts, i) + j]
                       loc == transcripts[i].segments[j]
                   IN  /\ out.start = loc.start + Offset(i)
                       /\ out.end = loc.end + Offset(i)
                       /\ out.text = loc.text

\* a transcript whose chunk index differs from its position in the list
C7_Witness ==
    /\ Returned
    /\ Len(transcripts) = 2
    /\ transcripts[1].segment_index = 1
    /\ transcripts[2].segment_index = 0
    /\ Len(transcripts[1].segments) = 2
    /\ Len(transcripts[2].segments) = 1
    /\ Len(merged_transcript.segments) = 3
    /\ merged_transcript.segments[1].start > merged_transcript.segments[3].start

OrderedByIndex(ts) ==
    \A i \in 1..Len(ts) - 1 : ts[i].segment_index < ts[i + 1].segment_index
LocallyOrdered(ts) ==
    \A i \in 1..Len(ts) :
        \A j \in 1..Len(ts[i].segments) - 1 :
            ts[i].segments[j].start <= ts[i].segments[j + 1].start
StartsWithinChunk(ts, D) ==
    \A i \in 1..Len(ts) : \A j \in 1..Len(ts[i].segments) : ts[i].segments[j].start <= D
MergedSorted ==
    \A k \in 1..Len(merged_transcript.segments) - 1 :
        merged_transcript.segments[k].start <= merged_transcript.segments[k + 1].start

\* C8 as stated: for transcripts ordered by segment_index, each with its
\* local segments ordered by start, and any chunk duration D, the merged
\* segments are sorted by start.
C8_MonotoneAsStated ==
    (Returned /\ OrderedByIndex(transcripts) /\ LocallyOrdered(transcripts))
        => MergedSorted

\* C8 as amended: for transcripts ordered by segment_index, each with its
\* local segments ordered by start, the merged segments are sorted by start
\* provided every chunk-local start is at most the chunk duration D.
C8_Monotone ==
    (Returned /\ OrderedByIndex(transcripts) /\ LocallyOrdered(transcripts)
        /\ StartsWithinChunk(transcripts, segment_duration))
        => MergedSorted

C8_Witness ==
    /\ Returned
    /\ Len(transcripts) = 2
    /\ OrderedByIndex(transcripts)
    /\ StartsWithinChunk(transcripts, segment_duration)
    /\ Len(transcripts[1].segments) = 2
    /\ Len(transcripts[2].segments) = 2
    /\ transcripts[1].segments[2].start > transcripts[2].segments[1].start
    /\ MergedSorted

\* the greatest element of a non-empty set of integers
SetMax(S) == CHOOSE m \in S : \A n \in S : n <= m

\* C9: the merged total_duration is the maximum over the input transcripts
\* of segment_index * D + duration, not the end of the last merged segment.
C9_TotalDuration ==
    (Returned /\ transcripts # <<>>) =>
        merged_transcript.total_duration
            = SetMax({Offset(i) + transcripts[i].duration : i \in 1..Len(transcripts)})

\* the maximum comes from the first transcript, and the last merged segment
\* ends elsewhere
C9_Witness ==
    /\ Returned
    /\ Len(transcripts) = 2
    /\ merged_transcript.total_duration = Offset(1) + transcripts[1].duration
    /\ merged_transcript.total_duration > Offset(2) + transcripts[2].duration
    /\ merged_transcript.segments # <<>>
    /\ merged_transcript.segments[Len(merged_transcript.segments)].end
           # merged_transcript.total_duration

RECURSIVE SpaceJoin(_)
\* ' '.join(texts)
SpaceJoin(texts) ==
    IF texts = <<>> THEN ""
    ELSE IF Len(texts) = 1 THEN texts[1]
    ELSE (texts[1] \o " ") \o SpaceJoin(Tail(texts))

\* C10: full_text is the texts of the input transcripts, in input order,
\* joined by single spaces, also when some text is the empty string.
C10_FullTextSpaceJoined ==
    Returned =>
        merged_transcript.full_text
            = SpaceJoin([i \in 1..Len(transcripts) |-> transcripts[i].text])

(***************************************************************************)
(* The pipeline stages of one job.  A stage runs from its entry to its     *)
(* return or to the exception it raises; every call of an external tool    *)
(* (ffmpeg, the transcription service, the language model) is a step of    *)
(* its own, and the outcome of the call is chosen by the environment.      *)
(***************************************************************************)
\* update_status: status.json is overwritten
UpdateStatus(status, progress, message) ==
    File([status |-> status, progress |-> progress, message |-> message])

\* one entry of the call log
Call(op, index, ok, result) ==
    [op |-> op, index |-> index, ok |-> ok, result |-> result]

\* a stage can be started when no stage is running
CanStart == pc \in {"idle", "returned", "raised"} /\ runs < MaxRuns

\* entry of a stage: a new run, nothing called yet
EnterStage ==
    /\ runs' = runs + 1
    /\ loop_i' = 0
    /\ response' = NoResponse

\* the locals of process_audio before it has assigned them
FreshAudioLocals ==
    /\ transcripts' = <<>>
    /\ merged_transcript' = EmptyDict
    /\ segment_files' = <<>>

\* the locals of compose_video before it has assigned them
FreshComposeLocals ==
    /\ visual_content' = EmptyDict
    /\ transcript' = EmptyDict
    /\ normalized_content' = <<>>
    /\ timeline' = <<>>
    /\ video_segments' = <<>>

\* a handler that reports the failure and lets the stage go on
RaiseAndGoOn(prefix, e) ==
    /\ status_file' = UpdateStatus("failed", 0, <<prefix, e>>)
    /\ error' = e
    /\ pc' = pc

\* a handler that reports a failure without the text of the error
RaiseWithoutText(prefix, e) ==
    /\ status_file' = UpdateStatus("failed", 0, <<prefix>>)
    /\ error' = e
    /\ pc' = "raised"

\* a handler that swallows the failure, so that the failed step runs again
RetrySilently(prefix, e) == UNCHANGED <<status_file, error, pc>>

\* "except Exception as e: update_status('failed', 0, prefix + str(e)); raise e"
Raise(prefix, e) ==
    /\ status_file' = UpdateStatus("failed", 0, <<prefix, e>>)
    /\ error' = e
    /\ pc' = "raised"

(***************************************************************************)
(* process_audio.                                                          *)
(***************************************************************************)
\* what transcribe_segment returns for chunk i when the service answers
ChunkTranscript(i, language) ==
    [segment_index |-> i,
     text |-> SegmentWords[i + 1],
     language |-> language,
     duration |-> 1,
     segments |-> <<[start |-> 0, end |-> 1, text |-> SegmentWords[i + 1]]>>]

\* a batch that numbers the transcripts by their position in the result
AfterSegmentRenumbered(ts, i, ok, language) ==
    IF ok THEN Append(ts, ChunkTranscript(Len(ts), language)) ELSE ts

\* the body of the loop of transcribe_all_segments: try / except / continue
AfterSegment(ts, i, ok, language) ==
    IF ok THEN Append(ts, ChunkTranscript(i, language)) ELSE ts

\* process_audio up to the ffmpeg call of segment_audio
ProcessAudioStart ==
    /\ CanStart
    /\ EnterStage
    /\ FreshAudioLocals
    /\ FreshComposeLocals
    /\ calls' = <<>>
    /\ IF audio_file
       THEN /\ status_file' =
                  UpdateStatus("processing", 10, <<"Segmenting audio file...">>)
            /\ error' = NoError
            /\ pc' = "segment_audio"
       ELSE Raise("Processing failed: ", "No audio file found in job directory")
    /\ UNCHANGED <<segment_duration, audio_file, transcript_file, manifest_file,
                   analysis_file, temp_files, concat_file, video_only_file,
                   output_file, composition_info_file>>

\* the ffmpeg call of segment_audio and the listing of the chunk files
SegmentAudio ==
    /\ pc = "segment_audio"
    /\ \/ \E n \in 1..MaxIndex + 1 :
              /\ segment_files' = [k \in 1..n |-> k - 1]
              /\ calls' = Append(calls, Call("segment", 0, TRUE, n))
              /\ status_file' =
                     UpdateStatus("processing", 20, <<"Created audio segments", n>>)
              /\ pc' = "transcribe"
              /\ UNCHANGED error
       \/ /\ calls' = Append(calls, Call("segment", 0, FALSE, 0))
          /\ Raise("Processing failed: ", "Audio segmentation failed: stderr")
          /\ UNCHANGED segment_files
    /\ UNCHANGED <<visual_content, transcript, normalized_content, timeline,
                   transcripts, segment_duration, merged_transcript, audio_file,
                   transcript_file, manifest_file, analysis_file, temp_files,
                   concat_file, video_only_file, output_file,
                   composition_info_file, video_segments, loop_i, runs, response>>

\* one iteration of the loop of transcribe_all_segments
TranscribeSegment ==
    /\ pc = "transcribe"
    /\ loop_i < Len(segment_files)
    /\ status_file' =
           UpdateStatus("processing", 20 + (loop_i * 50) \div Len(segment_files),
                        <<"Transcribing segment", loop_i + 1, Len(segment_files)>>)
    /\ \/ \E language \in Languages :
              /\ transcripts' = AfterSegment(transcripts, loop_i, TRUE, language)
              /\ calls' = Append(calls, Call("transcribe", loop_i, TRUE, language))
       \/ /\ transcripts' = AfterSegment(transcripts, loop_i, FALSE, "")
          /\ calls' = Append(calls, Call("transcribe", loop_i, FALSE, ""))
    /\ loop_i' = loop_i + 1
    /\ UNCHANGED <<visual_content, transcript, normalized_content, timeline,
                   segment_duration, merged_transcript, pc, audio_file,
                   transcript_file, manifest_file, analysis_file, segment_files,
                   temp_files, concat_file, video_only_file, output_file,
                   composition_info_file, video_segments, error, runs, response>>

\* process_audio after transcribe_all_segments has returned
FinishProcessAudio ==
    /\ pc = "transcribe"
    /\ loop_i = Len(segment_files)
    /\ IF transcripts = <<>>
       THEN /\ Raise("Processing failed: ", "No segments were successfully transcribed")
            /\ UNCHANGED <<merged_transcript, transcript_file, calls>>
       ELSE /\ merged_transcript' = merge_transcripts(transcripts, segment_duration)
            /\ transcript_file' = File(merged_transcript')
            /\ calls' = Append(Append(calls, Call("merge", 0, TRUE, 0)),
                               Call("write full_transcript.json", 0, TRUE, 0))
            /\ status_file' =
                   UpdateStatus("completed", 100,
                                <<"Audio processing completed successfully">>)
            /\ pc' = "returned"
            /\ UNCHANGED error
    /\ UNCHANGED <<visual_content, transcript, normalized_content, timeline,
                   transcripts, segment_duration, audio_file, manifest_file,
                   analysis_file, segment_files, temp_files, concat_file,
                   video_only_file, output_file, composition_info_file,
                   video_segments, loop_i, runs, response>>

NextAudio ==
    \/ ProcessAudioStart
    \/ SegmentAudio
    \/ TranscribeSegment
    \/ FinishProcessAudio

\* a job directory after upload: the audio file is there, or was removed
InitAudio ==
    /\ audio_file \in BOOLEAN
    /\ segment_duration \in 1..MaxSegmentDuration
    /\ transcript_file = NoFile
    /\ manifest_file = NoFile
    /\ analysis_file = NoFile
    /\ status_file = NoFile
    /\ segment_files = <<>>
    /\ temp_files = EmptyDict
    /\ concat_file = NoFile
    /\ video_only_file = NoFile
    /\ output_file = NoFile
    /\ composition_info_file = NoFile
    /\ video_segments = <<>>
    /\ loop_i = 0
    /\ calls = <<>>
    /\ error = NoError
    /\ runs = 0
    /\ response = NoResponse
    /\ visual_content = EmptyDict
    /\ transcript = EmptyDict
    /\ normalized_content = <<>>
    /\ timeline = <<>>
    /\ transcripts = <<>>
    /\ merged_transcript = EmptyDict
    /\ pc = "idle"

SpecAudio == InitAudio /\ [][NextAudio]_vars

(***************************************************************************)
(* compose_video.                                                          *)
(***************************************************************************)
\* prepare_image_for_video's output_path: splitext(basename(path)) + "_video.mp4"
ImageClipNames == <<"a_video.mp4", "b_video.mp4", "c_video.mp4", "d_video.mp4">>
ClipName(path) ==
    ImageClipNames[CHOOSE k \in 1..Len(ImagePathNames) : ImagePathNames[k] = path]

\* create_background_video's output_path: "background_" + int(duration) + ".mp4"
BackgroundNames ==
    <<"background_1.mp4", "background_2.mp4", "background_3.mp4",
      "background_4.mp4", "background_5.mp4", "background_6.mp4",
      "background_7.mp4", "background_8.mp4">>
BackgroundName(duration) == BackgroundNames[duration]

\* ffmpeg -y -t duration ... output_path: the file is created or overwritten
WriteClip(files, name, duration) ==
    [f \in DOMAIN files \cup {name} |-> IF f = name THEN duration ELSE files[f]]

\* how long the clip file of that name plays; a source video is not
\* re-encoded and plays its own length
ClipDuration(files, name) ==
    IF name \in DOMAIN files THEN files[name] ELSE default_video_duration

\* the characters concatenate_videos writes for one clip
Backslash == "BACKSLASH"
Newline == "NEWLINE"
ConcatEntry(segment) == <<"file '", segment, "'", Backslash, "n">>

\* the content of concat_list.txt
RECURSIVE ConcatList(_)
ConcatList(segments) ==
    IF segments = <<>> THEN <<>>
    ELSE ConcatEntry(Head(segments)) \o ConcatList(Tail(segments))

\* load_visual_content
LoadVisualContent ==
    IF Exists(manifest_file) THEN Content(manifest_file)
    ELSE [images |-> <<>>, videos |-> <<>>]

\* a check for the keys of the manifest instead of its content
NoVisualContentKeys(vc) ==
    "images" \notin DOMAIN vc /\ "videos" \notin DOMAIN vc

\* "not visual_content.get('images') and not visual_content.get('videos')"
NoVisualContent(vc) ==
    Get(vc, "images", <<>>) = <<>> /\ Get(vc, "videos", <<>>) = <<>>

\* a composition_info that counts the sources shown instead of the entries
CompositionInfoCountsSources(tl, tr, now) ==
    [output_path |-> "output/illustrated_podcast.mp4",
     timeline_segments |-> Cardinality({tl[k].path : k \in 1..Len(tl)}),
     total_duration |-> Get(tr, "total_duration", 0),
     video_resolution |-> "1920x1080",
     fps |-> 30,
     composition_timestamp |-> now]

\* a composition_info whose entry count grows with every run
CompositionInfoAccumulating(tl, tr, now) ==
    [output_path |-> "output/illustrated_podcast.mp4",
     timeline_segments |-> Len(tl) * now,
     total_duration |-> Get(tr, "total_duration", 0),
     video_resolution |-> "1920x1080",
     fps |-> 30,
     composition_timestamp |-> now]

\* composition_info as compose_video builds it; the clock is the run number
CompositionInfo(tl, tr, now) ==
    [output_path |-> "output/illustrated_podcast.mp4",
     timeline_segments |-> Len(tl),
     total_duration |-> Get(tr, "total_duration", 0),
     video_resolution |-> "1920x1080",
     fps |-> 30,
     composition_timestamp |-> now]

\* compose_video from its entry to the first call of prepare_video_segments
ComposeStart ==
    /\ CanStart
    /\ EnterStage
    /\ FreshAudioLocals
    /\ video_segments' = <<>>
    /\ IF ~Exists(transcript_file)
       THEN /\ Raise("Video composition failed: ", "Transcript not found")
            /\ calls' = <<>>
            /\ visual_content' = EmptyDict
            /\ transcript' = EmptyDict
            /\ normalized_content' = <<>>
            /\ timeline' = <<>>
       ELSE /\ transcript' = Content(transcript_file)
            /\ visual_content' = LoadVisualContent
            /\ IF ~audio_file
               THEN /\ Raise("Video composition failed: ",
                             "No audio file found in job directory")
                    /\ calls' = <<>>
                    /\ normalized_content' = <<>>
                    /\ timeline' = <<>>
               ELSE IF NoVisualContent(LoadVisualContent)
               THEN /\ Raise("Video composition failed: ",
                             "No visual content available for video composition")
                    /\ calls' = <<>>
                    /\ normalized_content' = <<>>
                    /\ timeline' = <<>>
               ELSE /\ calls' = <<Call("create_timeline", 0, TRUE, "")>>
                    /\ normalized_content' = AllContent(LoadVisualContent)
                    /\ timeline' = create_timeline(LoadVisualContent,
                                                   Content(transcript_file))
                    /\ status_file' =
                           UpdateStatus("composing", 97,
                                        <<"Preparing video segments...">>)
                    /\ error' = NoError
                    /\ pc' = "prepare"
    /\ UNCHANGED <<segment_duration, audio_file, transcript_file, manifest_file,
                   analysis_file, temp_files, concat_file, video_only_file,
                   output_file, composition_info_file>>

\* one iteration of the loop of prepare_video_segments
PrepareSegment ==
    /\ pc = "prepare"
    /\ loop_i < Len(timeline)
    /\ LET segment == timeline[loop_i + 1]
           rendered(name) ==
               /\ temp_files' = WriteClip(temp_files, name, segment.duration)
               /\ video_segments' = Append(video_segments, name)
               /\ calls' = Append(calls, Call(segment.type, loop_i, TRUE, name))
               /\ status_file' =
                      UpdateStatus("rendering", 98 + loop_i \div Len(timeline),
                                   <<"Preparing segment", loop_i + 1, Len(timeline)>>)
               /\ loop_i' = loop_i + 1
               /\ UNCHANGED <<pc, error>>
           failed(e) ==
               /\ calls' = Append(calls, Call(segment.type, loop_i, FALSE, ""))
               /\ Raise("Video composition failed: ", e)
               /\ UNCHANGED <<temp_files, video_segments, loop_i>>
       IN  CASE segment.type = "image" ->
                  \/ rendered(ClipName(segment.path))
                  \/ failed("Failed to convert image to video: stderr")
                  \/ /\ Raise("Video composition failed: ",
                               "Image not found: " \o segment.path)
                     /\ UNCHANGED <<temp_files, video_segments, loop_i, calls>>
             [] segment.type = "video" ->
                  /\ video_segments' = Append(video_segments, segment.path)
                  /\ status_file' =
                         UpdateStatus("rendering", 98 + loop_i \div Len(timeline),
                                      <<"Preparing segment", loop_i + 1, Len(timeline)>>)
                  /\ loop_i' = loop_i + 1
                  /\ UNCHANGED <<temp_files, calls, pc, error>>
             [] segment.type = "background" ->
                  \/ rendered(BackgroundName(segment.duration))
                  \/ failed("Failed to create background video: stderr")
    /\ UNCHANGED <<visual_content, transcript, normalized_content, timeline,
                   transcripts, segment_duration, merged_transcript, audio_file,
                   transcript_file, manifest_file, analysis_file, segment_files,
                   concat_file, video_only_file, output_file,
                   composition_info_file, runs, response>>

\* concatenate_videos, called once prepare_video_segments has returned
ConcatenateVideos ==
    /\ pc = "prepare"
    /\ loop_i = Len(timeline)
    /\ IF video_segments = <<>>
       THEN /\ Raise("Video composition failed: ", "No video segments to concatenate")
            /\ UNCHANGED <<concat_file, video_only_file, calls>>
       ELSE /\ concat_file' = File(ConcatList(video_segments))
            /\ \/ /\ video_only_file' =
                         File([k \in 1..Len(video_segments) |->
                                  ClipDuration(temp_files, video_segments[k])])
                  /\ calls' = Append(calls, Call("concatenate", 0, TRUE, ""))
                  /\ status_file' =
                         UpdateStatus("composing", 99, <<"Adding audio track...">>)
                  /\ pc' = "add_audio"
                  /\ UNCHANGED error
               \/ /\ calls' = Append(calls, Call("concatenate", 0, FALSE, ""))
                  /\ Raise("Video composition failed: ",
                           "Failed to concatenate videos: stderr")
                  /\ UNCHANGED video_only_file
    /\ UNCHANGED <<visual_content, transcript, normalized_content, timeline,
                   transcripts, segment_duration, merged_transcript, audio_file,
                   transcript_file, manifest_file, analysis_file, segment_files,
                   temp_files, output_file, composition_info_file,
                   video_segments, loop_i, runs, response>>

\* add_audio_to_video and the rest of compose_video
AddAudioToVideo ==
    /\ pc = "add_audio"
    /\ \/ /\ output_file' = File([run |-> runs, video |-> Content(video_only_file)])
          /\ composition_info_file' = File(CompositionInfo(timeline, transcript, runs))
          /\ calls' = Append(Append(calls, Call("add_audio", 0, TRUE, "")),
                             Call("write composition_info.json", 0, TRUE, ""))
          /\ status_file' =
                 UpdateStatus("completed", 100,
                              <<"Video composition completed successfully">>)
          /\ pc' = "returned"
          /\ UNCHANGED error
       \/ /\ calls' = Append(calls, Call("add_audio", 0, FALSE, ""))
          /\ Raise("Video composition failed: ", "Failed to add audio to video: stderr")
          /\ UNCHANGED <<output_file, composition_info_file>>
    /\ UNCHANGED <<visual_content, transcript, normalized_content, timeline,
                   transcripts, segment_duration, merged_transcript, audio_file,
                   transcript_file, manifest_file, analysis_file, segment_files,
                   temp_files, concat_file, video_only_file, video_segments,
                   loop_i, runs, response>>

(***************************************************************************)
(* The endpoints that read the job directory.  They answer between the     *)
(* runs of the stages.                                                     *)
(***************************************************************************)
Response(endpoint, code, body, built) ==
    [endpoint |-> endpoint, code |-> code, body |-> body, called_builder |-> built]

EndpointFrame ==
    UNCHANGED <<visual_content, transcript, normalized_content, timeline,
                transcripts, segment_duration, merged_transcript, pc,
                audio_file, transcript_file, manifest_file, analysis_file,
                status_file, segment_files, temp_files, concat_file,
                video_only_file, output_file, composition_info_file,
                video_segments, loop_i, calls, error, runs>>

\* send_file of output/illustrated_podcast.mp4 if it exists, else 404
ServeVideo(endpoint) ==
    IF Exists(output_file)
    THEN Response(endpoint, 200, output_file, FALSE)
    ELSE Response(endpoint, 404, NoFile, FALSE)

DownloadVideo ==
    /\ pc \in {"idle", "returned", "raised"}
    /\ response' = ServeVideo("download")
    /\ EndpointFrame

PreviewVideo ==
    /\ pc \in {"idle", "returned", "raised"}
    /\ response' = ServeVideo("preview")
    /\ EndpointFrame

GetCompositionInfo ==
    /\ pc \in {"idle", "returned", "raised"}
    /\ response' =
           IF Exists(composition_info_file)
           THEN Response("info", 200,
                         File(Content(composition_info_file)
                                  @@ [download_url |-> "/api/download/job"]),
                         FALSE)
           ELSE Response("info", 404, NoFile, FALSE)
    /\ EndpointFrame

\* list_jobs, for the one job of the model
ListJobs ==
    /\ pc \in {"idle", "returned", "raised"}
    /\ response' =
           Response("jobs", 200,
                    File([status |-> IF Exists(status_file)
                                     THEN Content(status_file).status
                                     ELSE "unknown",
                          progress |-> IF Exists(status_file)
                                       THEN Content(status_file).progress
                                       ELSE 0,
                          has_video |-> Exists(output_file)]),
                    FALSE)
    /\ EndpointFrame

\* the timeline entry as the timeline endpoint formats it
FormattedSegment(segment) ==
    [type |-> segment.type,
     start_time |-> segment.start_time,
     end_time |-> segment.end_time,
     duration |-> segment.duration,
     description |-> segment.description,
     relevance_score |-> segment.relevance_score]

GetVideoTimeline ==
    /\ pc \in {"idle", "returned", "raised"}
    /\ response' =
           IF ~Exists(transcript_file)
           THEN Response("timeline", 500, File("Transcript not found"), FALSE)
           ELSE IF NoVisualContent(LoadVisualContent)
           THEN Response("timeline", 200, File(<<>>), FALSE)
           ELSE LET tl == create_timeline(LoadVisualContent, Content(transcript_file))
                IN  Response("timeline", 200,
                             File([k \in 1..Len(tl) |-> FormattedSegment(tl[k])]),
                             TRUE)
    /\ EndpointFrame

(***************************************************************************)
(* Inputs of compose_video: the job directory as the earlier stages may    *)
(* have left it.                                                           *)
(***************************************************************************)
ComposeShapes == {<<>>, <<1>>, <<MaxStamp - 2>>}
ComposeTranscripts ==
    {EmptyDict, [total_duration |-> 1], [total_duration |-> MaxDuration]}

InitCompose ==
    /\ audio_file \in BOOLEAN
    /\ transcript_file \in {NoFile} \cup {File(t) : t \in ComposeTranscripts}
    /\ \/ manifest_file = NoFile
       \/ \E ci \in SeqsUpTo(ComposeShapes, MaxImages),
             cv \in SeqsUpTo(ComposeShapes, MaxVideos) :
              \E m \in Manifests(ImageList(ci), VideoList(cv)) :
                  manifest_file = File(m)
    /\ segment_duration = 1
    /\ analysis_file = NoFile
    /\ status_file = NoFile
    /\ segment_files = <<>>
    /\ temp_files = EmptyDict
    /\ concat_file = NoFile
    /\ video_only_file = NoFile
    /\ output_file = NoFile
    /\ composition_info_file = NoFile
    /\ video_segments = <<>>
    /\ loop_i = 0
    /\ calls = <<>>
    /\ error = NoError
    /\ runs = 0
    /\ response = NoResponse
    /\ visual_content = EmptyDict
    /\ transcript = EmptyDict
    /\ normalized_content = <<>>
    /\ timeline = <<>>
    /\ transcripts = <<>>
    /\ merged_transcript = EmptyDict
    /\ pc = "idle"

NextCompose ==
    \/ ComposeStart
    \/ PrepareSegment
    \/ ConcatenateVideos
    \/ AddAudioToVideo
    \/ DownloadVideo
    \/ PreviewVideo
    \/ GetCompositionInfo
    \/ GetVideoTimeline
    \/ ListJobs

SpecCompose == InitCompose /\ [][NextCompose]_vars

(***************************************************************************)
(* analyze_content.                                                        *)
(***************************************************************************)
\* what analyze_segment_for_visuals may return for a chunk: nothing (also
\* when the call or the parsing failed), one suggestion at the start of the
\* transcript, one later suggestion, or a list whose item is a string and
\* not a dict
Suggestions ==
    {<<>>,
     <<[timestamp |-> 0, description |-> "s"]>>,
     <<[timestamp |-> chunk_duration, description |-> "s"]>>,
     <<[str |-> "text"]>>}

WellFormed(suggestions) ==
    \A k \in 1..Len(suggestions) : "str" \notin DOMAIN suggestions[k]

\* ' '.join([s['text'] for s in current_chunk])
RECURSIVE JoinTexts(_)
JoinTexts(chunk) ==
    IF chunk = <<>> THEN ""
    ELSE IF Len(chunk) = 1 THEN chunk[1].text
    ELSE (chunk[1].text \o " ") \o JoinTexts(Tail(chunk))

\* the arguments of one call of analyze_segment_for_visuals, with the
\* segments of the chunk they were computed from
ChunkCall(current_chunk, chunk_start) ==
    [segment_text |-> JoinTexts(current_chunk),
     start_time |-> chunk_start,
     end_time |-> current_chunk[Len(current_chunk)].end,
     chunk |-> current_chunk]

\* the loop "for segment in segments" of create_visual_timeline from
\* position i on; the value is the list of the chunks handed to
\* analyze_segment_for_visuals
RECURSIVE ChunkLoop(_, _, _, _, _)
ChunkLoop(segments, i, current_chunk, chunk_start, submitted) ==
    IF i > Len(segments) THEN submitted
    ELSE LET segment == segments[i]
         IN  IF \/ segment.end - chunk_start > chunk_duration
                \/ segment = segments[Len(segments)]
             THEN ChunkLoop(segments, i + 1, <<segment>>, segment.start,
                      IF current_chunk # <<>>
                      THEN Append(submitted, ChunkCall(current_chunk, chunk_start))
                      ELSE submitted)
             ELSE ChunkLoop(segments, i + 1, Append(current_chunk, segment),
                            chunk_start, submitted)

\* the chunks create_visual_timeline submits for a transcript
SubmittedChunks(tr) == ChunkLoop(Get(tr, "segments", <<>>), 1, <<>>, 0, <<>>)

\* visual_timeline.extend(visual_suggestions), over all the answers
RECURSIVE Extend(_)
Extend(answers) ==
    IF answers = <<>> THEN <<>> ELSE Head(answers) \o Extend(Tail(answers))

\* one step of list.sort with the key x.get('timestamp', 0)
RECURSIVE InsertSuggestion(_, _)
InsertSuggestion(sorted, x) ==
    IF sorted = <<>> THEN <<x>>
    ELSE IF Get(Head(sorted), "timestamp", 0) <= Get(x, "timestamp", 0)
         THEN <<Head(sorted)>> \o InsertSuggestion(Tail(sorted), x)
         ELSE <<x>> \o sorted

\* visual_timeline.sort(key=lambda x: x.get('timestamp', 0))
RECURSIVE SortSuggestions(_)
SortSuggestions(suggestions) ==
    IF suggestions = <<>> THEN <<>>
    ELSE InsertSuggestion(
             SortSuggestions(SubSeq(suggestions, 1, Len(suggestions) - 1)),
             suggestions[Len(suggestions)])

\* analyze_content up to its calls of the language model
AnalyzeContentStart ==
    /\ CanStart
    /\ EnterStage
    /\ FreshAudioLocals
    /\ FreshComposeLocals
    /\ calls' = <<>>
    /\ IF Exists(transcript_file)
       THEN /\ status_file' =
                  UpdateStatus("analyzing", 85, <<"Creating visual timeline...">>)
            /\ error' = NoError
            /\ pc' = "analyze"
       ELSE Raise("Content analysis failed: ",
                  "Transcript not found. Please process audio first.")
    /\ UNCHANGED <<segment_duration, audio_file, transcript_file, manifest_file,
                   analysis_file, temp_files, concat_file, video_only_file,
                   output_file, composition_info_file, video_segments>>

\* create_visual_timeline with the answers of the language model, and the
\* rest of analyze_content; sorting suggestions that are not dicts raises
AnalyzeContentFinish ==
    /\ pc = "analyze"
    /\ LET chunks == SubmittedChunks(Content(transcript_file))
       IN  \E answers \in [1..Len(chunks) -> Suggestions] :
               LET suggestions == Extend(answers)
               IN  /\ calls' =
                          calls \o [k \in 1..Len(chunks) |->
                                       Call("analyze_segment_for_visuals", k - 1,
                                            TRUE, chunks[k])]
                   /\ IF WellFormed(suggestions)
                      THEN /\ analysis_file' =
                                 File([visual_timeline |-> SortSuggestions(suggestions),
                                       total_visual_moments |-> Len(suggestions)])
                           /\ status_file' =
                                 UpdateStatus("analyzed", 90,
                                              <<"Content analysis completed">>)
                           /\ pc' = "returned"
                           /\ UNCHANGED error
                      ELSE /\ Raise("Content analysis failed: ",
                                    "'str' object has no attribute 'get'")
                           /\ UNCHANGED analysis_file
    /\ UNCHANGED <<visual_content, transcript, normalized_content, timeline,
                   transcripts, segment_duration, merged_transcript, audio_file,
                   transcript_file, manifest_file, segment_files, temp_files,
                   concat_file, video_only_file, output_file,
                   composition_info_file, video_segments, loop_i, runs, response>>

(***************************************************************************)
(* analyze_content on its own: the job directory holds a merged transcript *)
(* whose segments follow one another.                                      *)
(***************************************************************************)
SegmentSpans == {10, 30, 50}

\* the segments of a transcript whose k-th segment lasts spans[k] seconds
RECURSIVE SegmentsOfSpans(_, _, _)
SegmentsOfSpans(spans, k, from) ==
    IF k > Len(spans) THEN <<>>
    ELSE <<[start |-> from, end |-> from + spans[k], text |-> SegmentWords[k]]>>
             \o SegmentsOfSpans(spans, k + 1, from + spans[k])

\* the transcript merge_transcripts leaves for such segments
AnalysisTranscript(spans) ==
    LET segments == SegmentsOfSpans(spans, 1, 0)
    IN  [total_duration |-> IF segments = <<>> THEN 0
                            ELSE segments[Len(segments)].end,
         language |-> "en",
         full_text |-> JoinTexts(segments),
         segments |-> segments]

InitAnalysis ==
    /\ audio_file = TRUE
    /\ \/ transcript_file = NoFile
       \/ \E spans \in SeqsUpTo(SegmentSpans, MaxAnalysisSegments) :
              transcript_file = File(AnalysisTranscript(spans))
    /\ manifest_file = NoFile
    /\ segment_duration = 1
    /\ analysis_file = NoFile
    /\ status_file = NoFile
    /\ segment_files = <<>>
    /\ temp_files = EmptyDict
    /\ concat_file = NoFile
    /\ video_only_file = NoFile
    /\ output_file = NoFile
    /\ composition_info_file = NoFile
    /\ video_segments = <<>>
    /\ loop_i = 0
    /\ calls = <<>>
    /\ error = NoError
    /\ runs = 0
    /\ response = NoResponse
    /\ visual_content = EmptyDict
    /\ transcript = EmptyDict
    /\ normalized_content = <<>>
    /\ timeline = <<>>
    /\ transcripts = <<>>
    /\ merged_transcript = EmptyDict
    /\ pc = "idle"

NextAnalysis ==
    \/ AnalyzeContentStart
    \/ AnalyzeContentFinish

SpecAnalysis == InitAnalysis /\ [][NextAnalysis]_vars

(***************************************************************************)
(* process_visual_content.  The searches, downloads and generations are    *)
(* calls to services whose helpers swallow every failure; what each query  *)
(* came to is chosen by the environment.                                   *)
(***************************************************************************)
searched_relevance == 8
generated_relevance == 7

\* the record appended for query_data when an image was found or generated
GeneratedImage(query_data, i, outcome) ==
    [filename |-> ImagePathNames[i],
     path |-> ImagePathNames[i],
     timestamp |-> Get(query_data, "timestamp", 0),
     query |-> query_data.query,
     description |-> Get(query_data, "description", ""),
     source |-> outcome,
     relevance_score |-> IF outcome = "search" THEN searched_relevance
                         ELSE generated_relevance]

\* the record appended for query_data when a video clip was generated
GeneratedVideo(query_data, i) ==
    [filename |-> VideoPathNames[i],
     path |-> VideoPathNames[i],
     timestamp |-> Get(query_data, "timestamp", 0),
     query |-> query_data.query,
     description |-> Get(query_data, "description", "")]

\* the outcomes a query can have
QueryOutcomes(query_data) ==
    IF Get(query_data, "type", "photo") = "video"
    THEN {"video", "failed"}
    ELSE {"search", "generated", "failed"}

\* the loop "for i, query_data in enumerate(visual_queries)" from position i on
RECURSIVE ProcessQueries(_, _, _, _)
ProcessQueries(visual_queries, outcomes, i, generated_content) ==
    IF i > Len(visual_queries) THEN generated_content
    ELSE LET query_data == visual_queries[i]
         IN  ProcessQueries(visual_queries, outcomes, i + 1,
                 CASE outcomes[i] = "failed" ->
                          [generated_content EXCEPT
                              !.failed_queries = Append(@, query_data)]
                   [] outcomes[i] = "video" ->
                          [generated_content EXCEPT
                              !.videos = Append(@, GeneratedVideo(query_data, i))]
                   [] OTHER ->
                          [generated_content EXCEPT
                              !.images = Append(@, GeneratedImage(query_data, i,
                                                                  outcomes[i]))])

\* a query as get_search_queries builds it from the content analysis
VisualQuery(query, type) ==
    [query |-> query,
     timestamp |-> 0,
     type |-> type,
     priority |-> 5,
     description |-> "d",
     image_prompt |-> ""]

\* the queries the caller may pass: a photo request, a video request, and
\* one whose query the analysis gave as null
VisualQueries ==
    {VisualQuery("q", "photo"), VisualQuery("q", "video"),
     VisualQuery(NoPath, "photo")}

\* process_visual_content as a whole
ProcessVisualContent ==
    /\ CanStart
    /\ EnterStage
    /\ FreshAudioLocals
    /\ FreshComposeLocals
    /\ calls' = <<>>
    /\ \E visual_queries \in SeqsUpTo(VisualQueries, MaxQueries) :
           IF \E i \in 1..Len(visual_queries) : visual_queries[i].query = NoPath
           THEN /\ Raise("Visual content generation failed: ",
                         "'NoneType' object is not iterable")
                /\ UNCHANGED manifest_file
           ELSE \E outcomes \in [1..Len(visual_queries) -> {"search", "generated", "video", "failed"}] :
                    /\ \A i \in 1..Len(visual_queries) :
                           outcomes[i] \in QueryOutcomes(visual_queries[i])
                    /\ manifest_file' =
                           File(ProcessQueries(visual_queries, outcomes, 1,
                                    [images |-> <<>>, videos |-> <<>>,
                                     failed_queries |-> <<>>]))
                    /\ status_file' =
                           UpdateStatus("content_ready", 98,
                                        <<"Visual content generation completed">>)
                    /\ error' = NoError
                    /\ pc' = "returned"
    /\ UNCHANGED <<segment_duration, audio_file, transcript_file, analysis_file,
                   temp_files, concat_file, video_only_file, output_file,
                   composition_info_file>>

(***************************************************************************)
(* The stages of one job, run one after the other in any order.            *)
(***************************************************************************)
\* the manifest the content stage may have left
JobManifests ==
    {[images |-> <<[path |-> "a.png"]>>, videos |-> <<>>],
     [images |-> <<>>, videos |-> <<>>]}

InitJob ==
    /\ audio_file \in BOOLEAN
    /\ segment_duration \in 1..MaxSegmentDuration
    /\ transcript_file = NoFile
    /\ manifest_file \in {NoFile} \cup {File(m) : m \in JobManifests}
    /\ analysis_file = NoFile
    /\ status_file = NoFile
    /\ segment_files = <<>>
    /\ temp_files = EmptyDict
    /\ concat_file = NoFile
    /\ video_only_file = NoFile
    /\ output_file = NoFile
    /\ composition_info_file = NoFile
    /\ video_segments = <<>>
    /\ loop_i = 0
    /\ calls = <<>>
    /\ error = NoError
    /\ runs = 0
    /\ response = NoResponse
    /\ visual_content = EmptyDict
    /\ transcript = EmptyDict
    /\ normalized_content = <<>>
    /\ timeline = <<>>
    /\ transcripts = <<>>
    /\ merged_transcript = EmptyDict
    /\ pc = "idle"

NextJob ==
    \/ ProcessAudioStart
    \/ SegmentAudio
    \/ TranscribeSegment
    \/ FinishProcessAudio
    \/ AnalyzeContentStart
    \/ AnalyzeContentFinish
    \/ ProcessVisualContent
    \/ ComposeStart
    \/ PrepareSegment
    \/ ConcatenateVideos
    \/ AddAudioToVideo

SpecJob == InitJob /\ [][NextJob]_vars

(***************************************************************************)
(* Properties of process_audio (checked under SpecAudio).                  *)
(***************************************************************************)
\* the stage has returned or raised
Ended == pc \in {"returned", "raised"}

\* the calls of one kind the running stage has made, in the order made
CallsOf(op) == SelectSeq(calls, LAMBDA c : c.op = op)

StatusIs(status) == Exists(status_file) /\ Content(status_file).status = status

\* C11: a run of process_audio that transcribed at least one chunk persists
\* a merged transcript whose language is that of the first transcript of the
\* list; a run that transcribed no chunk raises an error, reports the job
\* failed, calls no merge and writes no full_transcript.json.
C11_LanguageOrFailure ==
    Ended =>
        IF transcripts # <<>>
        THEN /\ pc = "returned"
             /\ merged_transcript.language = transcripts[1].language
             /\ transcript_file = File(merged_transcript)
        ELSE /\ pc = "raised"
             /\ error # NoError
             /\ StatusIs("failed")
             /\ CallsOf("merge") = <<>>
             /\ CallsOf("write full_transcript.json") = <<>>
             /\ merged_transcript = EmptyDict
             /\ runs = 1 => transcript_file = NoFile

\* two chunks transcribed in different languages, and merged
C11_Witness ==
    /\ pc = "returned"
    /\ Len(transcripts) >= 2
    /\ transcripts[1].language = "fr"
    /\ transcripts[2].language = "en"

\* C12: when the loop of transcribe_all_segments is over, every chunk has
\* been attempted once, in chunk order, whatever failed; the list holds
\* exactly what the service returned for the chunks that succeeded, in
\* ascending chunk order, each with the index of its chunk, so that its
\* merged segment starts at index * segment_duration; and process_audio
\* merges if and only if at least one chunk succeeded.
C12_PartialFailureTolerance ==
    LET attempts == CallsOf("transcribe")
        succeeded == SelectSeq(attempts, LAMBDA c : c.ok)
        n == Len(segment_files)
    IN  (pc = "transcribe" /\ loop_i = n) \/ (Ended /\ n > 0) =>
            /\ Len(attempts) = n
            /\ \A k \in 1..n : attempts[k].index = k - 1
            /\ Len(transcripts) = Len(succeeded)
            /\ \A k \in 1..Len(succeeded) :
                   /\ transcripts[k] =
                          ChunkTranscript(succeeded[k].index, succeeded[k].result)
                   /\ transcripts[k].segment_index = succeeded[k].index
            /\ \A k \in 1..Len(transcripts) - 1 :
                   transcripts[k].segment_index < transcripts[k + 1].segment_index
            /\ Ended =>
                   /\ CallsOf("merge") # <<>> <=> succeeded # <<>>
                   /\ pc = "returned" <=> succeeded # <<>>
                   /\ pc = "returned" =>
                          \A k \in 1..Len(transcripts) :
                              merged_transcript.segments[k].start =
                                  transcripts[k].segment_index * segment_duration

\* the first chunk failed, a later one succeeded and was merged
C12_Witness ==
    /\ pc = "returned"
    /\ Len(segment_files) >= 2
    /\ Len(transcripts) < Len(segment_files)
    /\ transcripts[1].segment_index > 0

(***************************************************************************)
(* Properties of compose_video (checked under SpecCompose).                *)
(***************************************************************************)
RECURSIVE Sum(_)
Sum(numbers) == IF numbers = <<>> THEN 0 ELSE Head(numbers) + Sum(Tail(numbers))

\* prepare_video_segments has gone through the whole timeline
Prepared == pc = "prepare" /\ loop_i = Len(timeline)

\* C14: once prepare_video_segments has processed the timeline, the clip
\* file named at the position of an image or background entry plays for
\* that entry's end_time - start_time, also when several entries refer to
\* the same source image; and the concatenation of the clips of a timeline
\* of such entries is as long as the transcript's total_duration.
C14_ExactClipDurations ==
    /\ Prepared =>
           \A k \in 1..Len(timeline) :
               timeline[k].type \in {"image", "background"} =>
                   ClipDuration(temp_files, video_segments[k]) =
                       timeline[k].end_time - timeline[k].start_time
    /\ (pc = "add_audio"
           /\ \A k \in 1..Len(timeline) : timeline[k].type # "video") =>
           Sum(Content(video_only_file)) = Get(transcript, "total_duration", 0)

\* the clip prepare_video_segments names for a timeline entry
ClipOf(segment) ==
    CASE segment.type = "image" -> ClipName(segment.path)
      [] segment.type = "video" -> segment.path
      [] segment.type = "background" -> BackgroundName(segment.duration)

\* an image or background call of the running stage has failed
EncoderFailure(call) == call.op \in {"image", "background"} /\ ~call.ok

\* C15: a failed image-to-clip or background-clip call is the last call of
\* its run: the loop stops at that entry, no concatenation and no audio
\* multiplexing is invoked, compose_video raises, the job is reported
\* failed and the run writes no composition_info.json.
C15_EncoderFailureFatal ==
    \A k \in 1..Len(calls) :
        EncoderFailure(calls[k]) =>
            /\ k = Len(calls)
            /\ pc = "raised"
            /\ error # NoError
            /\ StatusIs("failed")
            /\ loop_i = calls[k].index
            /\ Len(video_segments) = calls[k].index
            /\ CallsOf("concatenate") = <<>>
            /\ CallsOf("add_audio") = <<>>
            /\ CallsOf("write composition_info.json") = <<>>
            /\ Exists(composition_info_file) =>
                   Content(composition_info_file).composition_timestamp < runs

\* the second run fails at its second entry, after the first run succeeded
C15_Witness ==
    /\ pc = "raised"
    /\ runs = 2
    /\ Exists(composition_info_file)
    /\ Len(timeline) >= 3
    /\ EncoderFailure(calls[Len(calls)])
    /\ calls[Len(calls)].index = 2

\* the lines of concat_list.txt the claim describes
RECURSIVE ExpectedConcatList(_)
ExpectedConcatList(segments) ==
    IF segments = <<>> THEN <<>>
    ELSE <<"file '", Head(segments), "'", Newline>>
             \o ExpectedConcatList(Tail(segments))

\* C16: the clip list handed to concatenation has one clip per timeline
\* entry, at the same index, and concat_list.txt holds one line
\* "file '<path>'" per clip, each ended by a newline, in the same order.
C16_ConcatInTimelineOrder ==
    /\ Prepared \/ pc = "add_audio" \/ pc = "returned" =>
           /\ Len(video_segments) = Len(timeline)
           /\ \A k \in 1..Len(timeline) : video_segments[k] = ClipOf(timeline[k])
    /\ pc = "add_audio" \/ pc = "returned" =>
           Content(concat_file) = ExpectedConcatList(video_segments)

\* the served artifacts of the claim
Served ==
    response.endpoint \in {"download", "preview", "info"} /\ response.code = 200

\* C18: whenever the download, preview or info endpoint serves an artifact,
\* the artifact was produced by a run that completed and the most recent
\* composition run did not fail.
C18_NoPartialArtifacts ==
    Served =>
        /\ Exists(output_file)
        /\ Exists(composition_info_file)
        /\ Content(output_file).run =
               Content(composition_info_file).composition_timestamp
        /\ pc # "raised"

\* the manifest is absent, or lists neither an image nor a video
NoVisuals ==
    \/ manifest_file = NoFile
    \/ LET manifest == manifest_file[1]
       IN  /\ "images" \in DOMAIN manifest => manifest.images = <<>>
           /\ "videos" \in DOMAIN manifest => manifest.videos = <<>>

\* the job lacks an input of compose_video
MissingInput ==
    \/ transcript_file = NoFile
    \/ ~audio_file
    \/ NoVisuals

\* compose_video with a missing input: nothing built, nothing encoded
FatalWithoutEncoding ==
    runs >= 1 /\ MissingInput =>
        /\ pc = "raised"
        /\ error # NoError
        /\ StatusIs("failed")
        /\ calls = <<>>
        /\ timeline = <<>>
        /\ video_segments = <<>>

\* C19 as stated: compose_video with a missing input builds no timeline,
\* calls no encoder, raises and reports the job failed; and the timeline
\* endpoint, when there is no visual content, skips the builder and
\* answers with an empty timeline.
C19_MissingInputAsStated ==
    /\ FatalWithoutEncoding
    /\ response.endpoint = "timeline" /\ NoVisuals =>
           /\ ~response.called_builder
           /\ response.code = 200
           /\ response.body = File(<<>>)

\* C19: as above, but the timeline endpoint answers with an empty timeline
\* only if the transcript exists; without a transcript it answers with an
\* error, and in both cases it skips the builder.
C19_MissingInput ==
    /\ FatalWithoutEncoding
    /\ response.endpoint = "timeline" /\ NoVisuals =>
           /\ ~response.called_builder
           /\ IF Exists(transcript_file)
              THEN response.code = 200 /\ response.body = File(<<>>)
              ELSE response.code = 500
    /\ response.endpoint = "timeline" /\ ~Exists(transcript_file) =>
           ~response.called_builder /\ response.code = 500

\* compose_video has failed for want of visual content, and the timeline
\* endpoint has then answered with an empty timeline
C19_Witness ==
    /\ pc = "raised"
    /\ Exists(transcript_file)
    /\ audio_file
    /\ Exists(manifest_file)
    /\ "images" \in DOMAIN Content(manifest_file)
    /\ NoVisuals
    /\ response.endpoint = "timeline"
    /\ response.code = 200

\* C20: composition_info.json is written once by a run that returns, as
\* its last step and after the final video of that run exists, and never
\* by a run that is still going or has raised; it records the number of
\* timeline entries and the transcript's total_duration.
C20_CompositionResult ==
    LET writes == CallsOf("write composition_info.json")
    IN  /\ pc # "returned" =>
               /\ writes = <<>>
               /\ Exists(composition_info_file) =>
                      Content(composition_info_file).composition_timestamp < runs
        /\ pc = "returned" =>
               /\ Len(writes) = 1
               /\ calls[Len(calls)].op = "write composition_info.json"
               /\ calls[Len(calls) - 1] = Call("add_audio", 0, TRUE, "")
               /\ Exists(output_file)
               /\ Content(output_file).run = runs
               /\ Exists(composition_info_file)
               /\ LET info == Content(composition_info_file)
                  IN  /\ info.composition_timestamp = runs
                      /\ info.timeline_segments = Len(timeline)
                      /\ info.total_duration = transcript.total_duration
                      /\ info.total_duration = Content(transcript_file).total_duration

\* a second run has returned; its timeline shows an image and its filler
C20_Witness ==
    /\ pc = "returned"
    /\ runs = 2
    /\ Len(timeline) >= 2
    /\ timeline[1].path = timeline[2].path

(***************************************************************************)
(* Properties of the stages of a job (checked under SpecJob).              *)
(***************************************************************************)
\* C17: when process_audio, analyze_content or compose_video (or
\* process_visual_content, which reports in the same way) has failed,
\* the status record last written has status 'failed' and a message that
\* contains the text of the error, and that error is raised to the caller.
C17_FailureReported ==
    pc = "raised" =>
        /\ error # NoError
        /\ Exists(status_file)
        /\ Content(status_file).status = "failed"
        /\ \E k \in 1..Len(Content(status_file).message) :
               Content(status_file).message[k] = error
        /\ Content(status_file).message[1] \in
               {"Processing failed: ", "Content analysis failed: ",
                "Visual content generation failed: ",
                "Video composition failed: "}

\* after a successful process_audio, compose_video has failed in an encoder
C17_Witness ==
    /\ pc = "raised"
    /\ runs = 2
    /\ Exists(transcript_file)
    /\ Content(status_file).message[1] = "Video composition failed: "
    /\ calls # <<>>
    /\ EncoderFailure(calls[Len(calls)])

(***************************************************************************)
(* Claims about repeated compositions of one job.                          *)
(***************************************************************************)
\* a run of compose_video that got through add_audio_to_video
Composed == pc = "returned" /\ CallsOf("add_audio") # <<>>

\* C21: the inputs of the job being what they are, however many times
\* compose_video has run there is one output video and one
\* composition_info.json, the ones the latest successful run wrote, and the
\* composition_info names the fixed output path and carries the
\* timeline_segments and total_duration that a single run gives
C21_IdempotentByConvention ==
    /\ Exists(composition_info_file) =>
           LET info == Content(composition_info_file)
               single == create_timeline(LoadVisualContent, Content(transcript_file))
           IN  /\ Exists(output_file)
               /\ info.output_path = "output/illustrated_podcast.mp4"
               /\ info.timeline_segments = Len(single)
               /\ info.total_duration =
                      Get(Content(transcript_file), "total_duration", 0)
               /\ info.composition_timestamp = Content(output_file).run
    /\ Composed =>
           /\ Exists(output_file)
           /\ Exists(composition_info_file)
           /\ Content(output_file).run = runs
           /\ Content(composition_info_file).composition_timestamp = runs

\* a second successful composition over a first one, more than one entry
C21_Witness ==
    /\ Composed
    /\ runs = 2
    /\ Content(output_file).run = 2
    /\ Content(composition_info_file).timeline_segments >= 2
    /\ \E k \in 1..Len(calls) : calls[k].op = "image"

(***************************************************************************)
(* Claims about the placement pass and the fillers (SpecTimeline).         *)
(***************************************************************************)
\* the start_time and end_time the rule of C22 gives to the placements of the
\* sorted list sc from position i on, the cursor standing at cursor: it moves
\* to the end of a placement that is kept and stays otherwise
RECURSIVE C22_Assign(_, _, _, _)
C22_Assign(sc, total, i, cursor) ==
    IF i > Len(sc) THEN <<>>
    ELSE LET start == Max(sc[i].timestamp, cursor)
             end == Min(start + sc[i].duration, total)
         IN  <<[start |-> start, end |-> end]>>
                 \o C22_Assign(sc, total, i + 1, IF end > start THEN end ELSE cursor)

C22_Kept(assigned, i) == assigned[i].end > assigned[i].start

\* the positions of the sorted list whose placement is kept, in order
C22_KeptPositions(assigned) ==
    SelectSeq([i \in 1..Len(assigned) |-> i], LAMBDA i : C22_Kept(assigned, i))

\* the entries the rule of C22 gives for the kept placements
C22_Entries(sc, assigned, at) ==
    [k \in 1..Len(at) |->
        [type |-> sc[at[k]].type,
         path |-> sc[at[k]].path,
         start_time |-> assigned[at[k]].start,
         end_time |-> assigned[at[k]].end,
         duration |-> assigned[at[k]].end - assigned[at[k]].start,
         description |-> sc[at[k]].description,
         relevance_score |-> sc[at[k]].relevance_score]]

\* C22: with a cursor starting at 0, each placement of the sorted list gets
\* start_time = max(timestamp, cursor) and end_time = min(start_time +
\* duration, total_duration); it is kept, and the cursor moves to end_time,
\* iff end_time > start_time.  The returned timeline is the gap-filled list
\* of exactly these entries; a kept entry starts neither before its
\* timestamp nor before the end of the kept entry before it, and the kept
\* entries are in the order of the sorted list.
C22_PlacementAssignment ==
    Returned =>
        LET sc == SortedContent
            assigned == C22_Assign(sc, TotalDuration, 1, 0)
            at == C22_KeptPositions(assigned)
            kept == C22_Entries(sc, assigned, at)
        IN  /\ timeline = fill_timeline_gaps(kept, TotalDuration)
            /\ \A k \in 1..Len(kept) :
                   /\ kept[k].start_time >= sc[at[k]].timestamp
                   /\ k > 1 => kept[k].start_time >= kept[k - 1].end_time
                   /\ k > 1 => at[k - 1] < at[k]
                   /\ \E j \in 1..Len(timeline) : timeline[j] = kept[k]

\* one placement moved to the cursor and cut at total_duration, one dropped
C22_Witness ==
    /\ Returned
    /\ LET sc == SortedContent
           assigned == C22_Assign(sc, TotalDuration, 1, 0)
       IN  /\ Len(sc) = 3
           /\ C22_Kept(assigned, 1)
           /\ C22_Kept(assigned, 2)
           /\ assigned[2].start > sc[2].timestamp
           /\ assigned[2].end < assigned[2].start + sc[2].duration
           /\ ~C22_Kept(assigned, 3)
           /\ sc[3].timestamp < TotalDuration
           /\ Len(timeline) = 2

\* the list the placement pass hands to fill_timeline_gaps: the real entries
PlacementPass == PlaceContent(SortedContent, 1, TotalDuration, 0, <<>>)

\* the end of the real entry before position k, 0 before the first one
PreviousEnd(real, k) == IF k = 1 THEN 0 ELSE real[k - 1].end_time

\* the real entries that have a gap in front of them
GapsBefore(real) ==
    {k \in 1..Len(real) : real[k].start_time > PreviousEnd(real, k)}

HasTail(real) == real # <<>> /\ real[Len(real)].end_time < TotalDuration

\* C23: the filler of a gap is a Background entry without a path exactly
\* when the gap lies before the first real entry, so that a Background entry
\* can only be the first entry of the timeline; the filler of any other gap
\* has the type, path, description and relevance of the entry right before
\* it and spans from that entry's end to the start of the next real entry.
C23_GapFillerPolicy ==
    Returned =>
        LET real == PlacementPass
        IN  /\ \A j \in 1..Len(timeline) :
                   timeline[j].type = "background"
                       <=> (j = 1 /\ 1 \in GapsBefore(real))
            /\ 1 \in GapsBefore(real) =>
                   /\ timeline[1].path = NoPath
                   /\ timeline[1].start_time = 0
                   /\ timeline[1].end_time = real[1].start_time
                   /\ timeline[2] = real[1]
            /\ \A k \in GapsBefore(real) \ {1} :
                   \E j \in 2..Len(timeline) - 1 :
                       /\ timeline[j - 1] = real[k - 1]
                       /\ timeline[j + 1] = real[k]
                       /\ timeline[j].type = real[k - 1].type
                       /\ timeline[j].path = real[k - 1].path
                       /\ timeline[j].description = real[k - 1].description
                       /\ timeline[j].relevance_score = real[k - 1].relevance_score
                       /\ timeline[j].start_time = real[k - 1].end_time
                       /\ timeline[j].end_time = real[k].start_time
            /\ Len(timeline) = Len(real) + Cardinality(GapsBefore(real))
                                   + (IF HasTail(real) THEN 1 ELSE 0)

\* a gap before the first real entry and a gap between two real entries
C23_Witness ==
    /\ Returned
    /\ LET real == PlacementPass
       IN  /\ Len(real) >= 2
           /\ {1, 2} \subseteq GapsBefore(real)
           /\ timeline[1].type = "background"
           /\ timeline[3].path = real[1].path
           /\ timeline[3].start_time = real[1].end_time

\* C24: when the last real entry ends before total_duration, exactly one
\* entry follows it in the timeline: a duplicate of it (same type, path,
\* description, relevance) spanning [its end, total_duration]; when the last
\* real entry ends at total_duration, it is the last entry of the timeline.
C24_TrailingFiller ==
    (Returned /\ PlacementPass # <<>>) =>
        LET real == PlacementPass
            last == real[Len(real)]
            n == Len(timeline)
        IN  IF last.end_time < TotalDuration
            THEN /\ n >= 2
                 /\ timeline[n - 1] = last
                 /\ timeline[n].type = last.type
                 /\ timeline[n].path = last.path
                 /\ timeline[n].description = last.description
                 /\ timeline[n].relevance_score = last.relevance_score
                 /\ timeline[n].start_time = last.end_time
                 /\ timeline[n].end_time = TotalDuration
            ELSE /\ last.end_time = TotalDuration
                 /\ timeline[n] = last

\* a real entry behind a gap that ends before total_duration
C24_Witness ==
    /\ Returned
    /\ Len(PlacementPass) = 1
    /\ HasTail(PlacementPass)
    /\ Len(timeline) = 3
    /\ timeline[2] = PlacementPass[1]
    /\ timeline[3].path = timeline[2].path
    /\ timeline[3].start_time = timeline[2].end_time
    /\ timeline[3].end_time = TotalDuration

\* the place a stable ascending sort by timestamp gives to position i of
\* content: behind the smaller timestamps and the equal ones before i
StableRank(content, i) ==
    1 + Cardinality({j \in 1..Len(content) :
                        \/ content[j].timestamp < content[i].timestamp
                        \/ /\ content[j].timestamp = content[i].timestamp
                           /\ j < i})

StableOrder(content) ==
    [k \in 1..Len(content) |->
        content[CHOOSE i \in 1..Len(content) : StableRank(content, i) = k]]

\* the images of the manifest in manifest order, then its videos in theirs
ManifestOrder(content) ==
    LET images == Get(visual_content, "images", <<>>)
        videos == Get(visual_content, "videos", <<>>)
    IN  /\ Len(content) = Len(images) + Len(videos)
        /\ \A i \in 1..Len(images) :
               content[i].type = "image" /\ content[i].path = images[i].path
        /\ \A i \in 1..Len(videos) :
               /\ content[Len(images) + i].type = "video"
               /\ content[Len(images) + i].path = videos[i].path

\* C25: the placements are taken in ascending order of timestamp, those with
\* equal timestamps in input order (the images in manifest order, then the
\* videos in manifest order); the order depends on nothing else, so the
\* relevance of two placements never decides which comes first.
C25_StableTimestampOrder ==
    Returned =>
        LET ordered == StableOrder(normalized_content)
        IN  /\ ManifestOrder(normalized_content)
            /\ timeline = fill_timeline_gaps(
                              PlaceContent(ordered, 1, TotalDuration, 0, <<>>),
                              TotalDuration)

\* two placements with one timestamp, the more relevant one later in the
\* input and later in the timeline
C25_Witness ==
    /\ Returned
    /\ \E i, j \in 1..Len(normalized_content) :
           /\ i < j
           /\ normalized_content[i].timestamp = normalized_content[j].timestamp
           /\ normalized_content[i].relevance_score < normalized_content[j].relevance_score
           /\ \E a, b \in 1..Len(timeline) :
                  /\ a < b
                  /\ timeline[a].path = normalized_content[i].path
                  /\ timeline[b].path = normalized_content[j].path
                  /\ timeline[b].start_time > normalized_content[j].timestamp

(***************************************************************************)
(* Claims about the calls of one compose_video run (SpecCompose).          *)
(***************************************************************************)
ClipCall(call) == call.op \in {"image", "background"}
EncoderCall(call) == call.op \in {"image", "background", "concatenate", "add_audio"}

\* C26: in the call log of a compose_video run the clip-producing calls
\* come in strictly increasing order of timeline index, each for the entry
\* the loop stands at; there is at most one concatenation, issued when every
\* entry has its clip and all earlier calls succeeded; there is at most one
\* audio multiplexing, issued right after a successful concatenation; and
\* no call follows a failed one, so that no encoder call is made twice.
C26_EncoderCallOrder ==
    /\ \A a, b \in 1..Len(calls) :
           (a < b /\ ClipCall(calls[a]) /\ ClipCall(calls[b]))
               => calls[a].index < calls[b].index
    /\ \A a \in 1..Len(calls) :
           ClipCall(calls[a]) =>
               /\ calls[a].index < Len(timeline)
               /\ calls[a].op = timeline[calls[a].index + 1].type
               /\ calls[a].ok => video_segments[calls[a].index + 1] = calls[a].result
    /\ Len(CallsOf("concatenate")) <= 1
    /\ Len(CallsOf("add_audio")) <= 1
    /\ \A a \in 1..Len(calls) :
           /\ calls[a].op = "concatenate" =>
                  /\ loop_i = Len(timeline)
                  /\ Len(video_segments) = Len(timeline)
                  /\ \A b \in 1..Len(calls) : ClipCall(calls[b]) => b < a
           /\ calls[a].op = "add_audio" =>
                  /\ a > 1
                  /\ calls[a - 1].op = "concatenate"
                  /\ calls[a - 1].ok
           /\ (EncoderCall(calls[a]) /\ ~calls[a].ok) => a = Len(calls)

\* a run that made two clips, concatenated them and added the audio
C26_Witness ==
    /\ pc = "returned"
    /\ Len(SelectSeq(calls, ClipCall)) >= 2
    /\ Len(CallsOf("concatenate")) = 1
    /\ Len(CallsOf("add_audio")) = 1
    /\ \E a \in 1..Len(calls) : calls[a].op = "background"

\* every entry of real is an entry of tl, field for field, in the same order
KeptUnchanged(real, tl) ==
    /\ \A k \in 1..Len(real) : \E j \in 1..Len(tl) : tl[j] = real[k]
    /\ \A k \in 1..Len(real) - 1 :
           \E i, j \in 1..Len(tl) :
               i < j /\ tl[i] = real[k] /\ tl[j] = real[k + 1]

RealEntriesKept == Returned => KeptUnchanged(PlacementPass, timeline)

InputsUntouched == visual_content' = visual_content /\ transcript' = transcript

\* C27: every entry of the placement pass is in the returned timeline with
\* all seven fields as the pass made them, the entries around it being
\* further entries and not edits of it, and create_timeline changes neither
\* the visual-content records nor the transcript it was given.
C27_FillNeverEdits == [](RealEntriesKept) /\ [][InputsUntouched]_vars

\* two real entries with a filler copied from the first one between them
C27_Witness ==
    /\ Returned
    /\ Len(PlacementPass) = 2
    /\ Len(timeline) = 3
    /\ timeline[1] = PlacementPass[1]
    /\ timeline[2].path = timeline[1].path
    /\ timeline[2].start_time = timeline[1].end_time
    /\ timeline[3] = PlacementPass[2]

\* compose_video has all its inputs, and no placement of the manifest has a
\* timestamp before the transcript's total_duration (all of them when it is 0)
NothingToPlace ==
    /\ ~MissingInput
    /\ \A image \in {Content(manifest_file).images[k] :
                        k \in 1..Len(Get(Content(manifest_file), "images", <<>>))} :
           Get(image, "timestamp", 0) >= Get(Content(transcript_file), "total_duration", 0)
    /\ \A video \in {Content(manifest_file).videos[k] :
                        k \in 1..Len(Get(Content(manifest_file), "videos", <<>>))} :
           Get(video, "timestamp", 0) >= Get(Content(transcript_file), "total_duration", 0)

\* C28: when visual content exists and the timeline built from it is empty
\* (total_duration is 0, or every placement's timestamp is at or beyond
\* it), a compose_video run makes no encoder call, fails with "No video
\* segments to concatenate", reports the job failed, and leaves neither an
\* output video nor a composition_info.json.
C28_EmptyTimelineFails ==
    (Ended /\ NothingToPlace) =>
        /\ timeline = <<>>
        /\ \A k \in 1..Len(calls) : ~EncoderCall(calls[k])
        /\ pc = "raised"
        /\ error = "No video segments to concatenate"
        /\ StatusIs("failed")
        /\ Content(status_file).progress = 0
        /\ video_segments = <<>>
        /\ ~Exists(concat_file)
        /\ ~Exists(video_only_file)
        /\ ~Exists(output_file)
        /\ ~Exists(composition_info_file)

\* a positive total_duration with every placement at or beyond it, run twice
C28_Witness ==
    /\ pc = "raised"
    /\ runs = 2
    /\ NothingToPlace
    /\ Get(Content(transcript_file), "total_duration", 0) > 0
    /\ Len(Get(Content(manifest_file), "images", <<>>)) >= 1
    /\ Len(Get(Content(manifest_file), "videos", <<>>)) >= 1
    /\ error = "No video segments to concatenate"

(***************************************************************************)
(* Claims about the status record over the stages of a job (SpecJob).      *)
(***************************************************************************)
\* C29: whatever stages have run for the job, the status record holds
\* status 'completed' with progress 100 only when the final video
\* output/illustrated_podcast.mp4 exists.
C29_CompletedMeansVideo ==
    (StatusIs("completed") /\ Content(status_file).progress = 100)
        => Exists(output_file)

(***************************************************************************)
(* Claims about analyze_content (SpecAnalysis).                            *)
(***************************************************************************)
\* the chunks handed to analyze_segment_for_visuals in the run, in call order
ChunksOfRun ==
    LET submitted == CallsOf("analyze_segment_for_visuals")
    IN  [k \in 1..Len(submitted) |-> submitted[k].result.chunk]

SortedByTimestamp(suggestions) ==
    \A k \in 1..Len(suggestions) - 1 :
        Get(suggestions[k], "timestamp", 0) <= Get(suggestions[k + 1], "timestamp", 0)

\* C30: for a transcript with at least one segment, every segment (the last
\* one, and the only one of a one-segment transcript, included) is handed to
\* analyze_segment_for_visuals in exactly one chunk, the chunks are runs of
\* consecutive segments in transcript order, and the suggestions returned
\* are sorted by timestamp.
C30_ChunkCoverage ==
    (Ended /\ Exists(transcript_file)
           /\ Get(Content(transcript_file), "segments", <<>>) # <<>>) =>
        LET segments == Content(transcript_file).segments
            chunks == ChunksOfRun
        IN  /\ \A i \in 1..Len(segments) :
                   Cardinality({k \in 1..Len(chunks) :
                                   \E j \in 1..Len(chunks[k]) :
                                       chunks[k][j] = segments[i]}) = 1
            /\ Extend(chunks) = segments
            /\ pc = "returned" =>
                   SortedByTimestamp(Content(analysis_file).visual_timeline)

====
